---- MODULE Spec2Model ----
(***************************************************************************)
(* A model of the dataset assembly and model export pipeline of            *)
(* TwitterAIReporter:                                                      *)
(*   training/scripts/download_datasets.py  (segmenter, balancer, split)   *)
(*   training/scripts/export_model.py       (export pipeline)              *)
(* Texts are sequences of one-character strings, so that len(), replace(), *)
(* split() and strip() are computed as Python computes them.               *)
(***************************************************************************)
EXTENDS Integers, Sequences, FiniteSets, TLC

VARIABLES
    \* create_short_text_samples(data, max_length) -> short_samples
    data, max_length, short_samples, seg_pc,
    \* main() of download_datasets.py from balancing to the split
    short_data, balanced_data, train_data, val_data, test_data, bal_pc,
    \* main() of export_model.py: the arguments, the files under the output
    \* directory, what the SavedModel and the written files hold, the stages
    \* run so far, the exception that ended the run
    skip_onnx, arg_max_length, model_path, stale, fs, saved_model, manifest,
    tokenizer_config, stages, error, exp_pc,
    \* inference-python/main.py: the module globals, where the application
    \* is in its life, the last response, the requests handled so far
    model, tokenizer, device, srv_pc, response, n_requests,
    \* main() of download_datasets.py before the balancing and after the
    \* split: the argument, the upstream datasets, the records downloaded,
    \* what each connector returned, the warnings printed, the files
    \* written, the statistics, the exception that ended it
    max_samples, upstream, all_data, returned, warnings, saved, stats,
    asm_error,
    \* convert_to_tensorflowjs of train_local.py: the files already in the
    \* bundle directory, the files it has written, the exit status of the
    \* converter, what it returned, where it is
    tfjs_dir, written, returncode, conv_result, conv_pc

segVars == <<data, max_length, short_samples, seg_pc>>
balVars == <<short_data, balanced_data, train_data, val_data, test_data, bal_pc>>
expArgs == <<skip_onnx, arg_max_length, model_path, stale>>
expVars == <<skip_onnx, arg_max_length, model_path, stale, fs, saved_model,
             manifest, tokenizer_config, stages, error, exp_pc>>
srvVars == <<model, tokenizer, device, srv_pc, response, n_requests>>
asmVars == <<max_samples, upstream, all_data, returned, warnings, saved, stats,
             asm_error>>
cnvVars == <<tfjs_dir, written, returncode, conv_result, conv_pc>>
vars == <<segVars, balVars, expVars, srvVars, asmVars, cnvVars>>
notSeg == <<balVars, expVars, srvVars, asmVars, cnvVars>>
notBal == <<segVars, expVars, srvVars, asmVars, cnvVars>>
notExp == <<segVars, balVars, srvVars, asmVars, cnvVars>>
notSrv == <<segVars, balVars, expVars, asmVars, cnvVars>>
notMain == <<segVars, expVars, srvVars, cnvVars>>
notCnv == <<segVars, balVars, expVars, srvVars, asmVars>>

(***************************************************************************)
(* Bounds of the model                                                     *)
(***************************************************************************)
\* number of pieces (words, terminators, blanks) a generated text is made of
MaxPieces == 4
\* number of records in a list drawn from the record pool
MaxRecords == 2
\* number of records in a list given to the balancer
MaxBalRecords == 6
\* number of requests the prediction service handles
MaxRequests == 3
\* largest --max-samples given to an assembly run (0: not given)
MaxSamplesArg == 1
\* number of texts the upstream datasets of one assembly run hold together
MaxRawTexts == 4

(***************************************************************************)
(* Python's str operations on sequences of characters                      *)
(***************************************************************************)
Whitespace == {" ", "\n"}

\* str.replace(old, new) for one-character old and new
Replace(s, old, new) == [i \in 1..Len(s) |-> IF s[i] = old THEN new ELSE s[i]]

\* str.split(sep) for a one-character sep: the pieces between the separators,
\* empty pieces included (Len(result) = number of separators + 1)
Split(s, sep) ==
    LET pos == SelectSeq([i \in 1..Len(s) |-> i], LAMBDA i : s[i] = sep)
        lo(k) == IF k = 1 THEN 1 ELSE pos[k - 1] + 1
        hi(k) == IF k = Len(pos) + 1 THEN Len(s) ELSE pos[k] - 1
    IN  [k \in 1..(Len(pos) + 1) |-> SubSeq(s, lo(k), hi(k))]

\* str.strip(): drop leading and trailing whitespace
Strip(s) ==
    LET keep == {i \in 1..Len(s) : s[i] \notin Whitespace}
    IN  IF keep = {} THEN <<>>
        ELSE LET first == CHOOSE i \in keep : \A j \in keep : i <= j
                 last  == CHOOSE i \in keep : \A j \in keep : j <= i
             IN  SubSeq(s, first, last)

(***************************************************************************)
(* create_short_text_samples (download_datasets.py 237-288)                *)
(***************************************************************************)
\* minimum viable length of a chunk
MinChunkLen == 30

\* the record appended for a chunk
ChunkRecord(item, chunk) ==
    [text |-> chunk, label |-> item.label, source |-> item.source,
     category |-> item.category, text_type |-> "chunked"]

\* {**item, 'text_type': 'original_short'}
OriginalShort(item) == ("text_type" :> "original_short") @@ item

\* text.replace('!', '.').replace('?', '.').split('.'), stripped, empties dropped
Sentences(text) ==
    LET parts    == Split(Replace(Replace(text, "!", "."), "?", "."), ".")
        stripped == [k \in 1..Len(parts) |-> Strip(parts[k])]
    IN  SelectSeq(stripped, LAMBDA s : s # <<>>)

\* Append1 putting the sentence before the running chunk
Append1_Reversed(current_chunk, sentence) ==
    IF current_chunk # <<>> THEN Strip(sentence \o <<" ">> \o current_chunk)
    ELSE sentence

\* f"{current_chunk} {sentence}".strip() if current_chunk else sentence
Append1(current_chunk, sentence) ==
    IF current_chunk # <<>> THEN Strip(current_chunk \o <<" ">> \o sentence)
    ELSE sentence

\* PackStep without the length test on the overflowing sentence
PackStep_NoLenCheck(st, sentence, item, maxlen) ==
    IF Len(st.chunk) + Len(sentence) + 1 <= maxlen
    THEN [chunk |-> Append1(st.chunk, sentence), out |-> st.out]
    ELSE [chunk |-> sentence,
          out   |-> IF Len(st.chunk) >= MinChunkLen
                    THEN Append(st.out, ChunkRecord(item, st.chunk))
                    ELSE st.out]

\* PackStep cutting an over-long sentence to maxlen instead of dropping it
PackStep_Truncate(st, sentence, item, maxlen) ==
    IF Len(st.chunk) + Len(sentence) + 1 <= maxlen
    THEN [chunk |-> Append1(st.chunk, sentence), out |-> st.out]
    ELSE [chunk |-> IF Len(sentence) <= maxlen THEN sentence
                    ELSE SubSeq(sentence, 1, maxlen),
          out   |-> IF Len(st.chunk) >= MinChunkLen
                    THEN Append(st.out, ChunkRecord(item, st.chunk))
                    ELSE st.out]

\* PackStep emitting the running chunk on overflow whatever its length
PackStep_EmitAlways(st, sentence, item, maxlen) ==
    IF Len(st.chunk) + Len(sentence) + 1 <= maxlen
    THEN [chunk |-> Append1(st.chunk, sentence), out |-> st.out]
    ELSE [chunk |-> IF Len(sentence) <= maxlen THEN sentence ELSE <<>>,
          out   |-> IF st.chunk # <<>>
                    THEN Append(st.out, ChunkRecord(item, st.chunk))
                    ELSE st.out]

\* one iteration of "for sentence in sentences": st = [chunk, out]
PackStep(st, sentence, item, maxlen) ==
    IF Len(st.chunk) + Len(sentence) + 1 <= maxlen
    THEN [chunk |-> Append1(st.chunk, sentence), out |-> st.out]
    ELSE [chunk |-> IF Len(sentence) <= maxlen THEN sentence ELSE <<>>,
          out   |-> IF Len(st.chunk) >= MinChunkLen
                    THEN Append(st.out, ChunkRecord(item, st.chunk))
                    ELSE st.out]

RECURSIVE PackFrom(_, _, _, _, _)
PackFrom(sentences, k, st, item, maxlen) ==
    IF k > Len(sentences) THEN st
    ELSE PackFrom(sentences, k + 1, PackStep(st, sentences[k], item, maxlen),
                  item, maxlen)

\* the last chunk
FlushLast(st, item) ==
    IF Len(st.chunk) >= MinChunkLen
    THEN Append(st.out, ChunkRecord(item, st.chunk))
    ELSE st.out

\* SamplesOf with "<" for "<=" in the test for a short text
SamplesOf_Strict(item, maxlen) ==
    IF Len(item.text) < maxlen THEN <<OriginalShort(item)>>
    ELSE FlushLast(PackFrom(Sentences(item.text), 1,
                            [chunk |-> <<>>, out |-> <<>>], item, maxlen), item)

\* the samples one item contributes
SamplesOf(item, maxlen) ==
    IF Len(item.text) <= maxlen THEN <<OriginalShort(item)>>
    ELSE FlushLast(PackFrom(Sentences(item.text), 1,
                            [chunk |-> <<>>, out |-> <<>>], item, maxlen), item)

RECURSIVE create_short_text_samples(_, _)
create_short_text_samples(d, maxlen) ==
    IF d = <<>> THEN <<>>
    ELSE SamplesOf(Head(d), maxlen) \o create_short_text_samples(Tail(d), maxlen)


(***************************************************************************)
(* Inputs of the segmenter                                                 *)
(***************************************************************************)
Word(n) == [i \in 1..n |-> "a"]

\* words shorter than, within and beyond the maximum lengths below,
\* the three sentence terminators and the two whitespace characters
Pieces == {Word(10), Word(20), Word(33), <<".">>, <<"!">>, <<"?">>, <<" ">>}

RECURSIVE Concat(_)
Concat(ps) == IF ps = <<>> THEN <<>> ELSE Head(ps) \o Concat(Tail(ps))

GenTexts == UNION {{Concat(ps) : ps \in [1..k -> Pieces]} : k \in 0..MaxPieces}

\* max_length: below every text, below MinChunkLen, just above it, the default
MaxLengths == {-1, 0, 20, 31, 280}

Rec(t, l, s, c) == [text |-> t, label |-> l, source |-> s, category |-> c]

GenRecords == {Rec(t, l, "hc3", "qa") : t \in GenTexts, l \in {0, 1}}

\* records of every kind: short, packed into one chunk, split into two chunks,
\* dropped, of either label and of different provenance
RecordPool ==
    { Rec(Word(10), 0, "hc3", "qa"),
      Rec(Word(20) \o <<" ">> \o Word(10), 1, "pile_unknown", "essay"),
      Rec(Word(20) \o <<".", " ">> \o Word(10) \o <<"!">>, 1, "gpt_wiki", "wiki"),
      Rec(Word(33) \o <<"?">> \o Word(20) \o <<" ">> \o Word(10) \o <<".">>
            \o Word(20) \o <<"\n">> \o Word(10), 0, "chatgpt_research", "mixed"),
      Rec(Word(33), 0, "chatgpt_detector", "mixed") }

PoolLists == UNION {[1..k -> RecordPool] : k \in 0..MaxRecords}

\* {text: "A"*500, label: AI}
ScenarioRecord == Rec([i \in 1..500 |-> "A"], 1, "hc3", "qa")

SegInputs == {<<r>> : r \in GenRecords} \cup PoolLists \cup {<<ScenarioRecord>>}

(***************************************************************************)
(* balance_dataset (download_datasets.py 291-314) and the split of main    *)
(* (376-386).  random.shuffle may leave any order: every operator that     *)
(* shuffles yields the set of its possible results.                        *)
(***************************************************************************)
\* the orders random.shuffle(s) can leave
Shuffles(s) ==
    {[i \in 1..Len(s) |-> s[p[i]]] : p \in Permutations(1..Len(s))}

Min(a, b) == IF a <= b THEN a ELSE b

\* s[:n]
Prefix(s, n) == SubSeq(s, 1, n)

\* balance_dataset keeping the whole majority class
balance_dataset_NoTruncate(d) ==
    LET human_samples == SelectSeq(d, LAMBDA r : r.label = 0)
        ai_samples    == SelectSeq(d, LAMBDA r : r.label = 1)
        min_count     == Min(Len(human_samples), Len(ai_samples))
    IN  UNION {Shuffles(Prefix(h, min_count) \o a) :
                 h \in Shuffles(human_samples), a \in Shuffles(ai_samples)}

\* the lists balance_dataset(d) can return
balance_dataset(d) ==
    LET human_samples == SelectSeq(d, LAMBDA r : r.label = 0)
        ai_samples    == SelectSeq(d, LAMBDA r : r.label = 1)
        min_count     == Min(Len(human_samples), Len(ai_samples))
        humans        == {Prefix(h, min_count) : h \in Shuffles(human_samples)}
        ais           == {Prefix(a, min_count) : a \in Shuffles(ai_samples)}
    IN  UNION {Shuffles(h \o a) : h \in humans, a \in ais}

\* int(n * 0.8) and int(n * 0.9): the double nearest to 0.8 (to 0.9) lies
\* above it, and for the list lengths a run can hold the product truncates
\* to floor(8n/10) (to floor(9n/10))
TrainEnd(n) == (n * 8) \div 10
ValEnd(n) == (n * 9) \div 10

\* the split with test_data cut at train_end instead of val_end
SplitOf_TestFromTrainEnd(b) ==
    LET n == Len(b)
    IN  [train |-> SubSeq(b, 1, TrainEnd(n)),
         val   |-> SubSeq(b, TrainEnd(n) + 1, ValEnd(n)),
         test  |-> SubSeq(b, TrainEnd(n) + 1, n)]

\* balanced_data[:train_end], [train_end:val_end], [val_end:]
SplitOf(b) ==
    LET n == Len(b)
    IN  [train |-> SubSeq(b, 1, TrainEnd(n)),
         val   |-> SubSeq(b, TrainEnd(n) + 1, ValEnd(n)),
         test  |-> SubSeq(b, ValEnd(n) + 1, n)]

(***************************************************************************)
(* Inputs of the balancer: segmented records, all different                *)
(***************************************************************************)
SegRec(t, l, s, c, ty) ==
    [text |-> t, label |-> l, source |-> s, category |-> c, text_type |-> ty]

\* balance_dataset and the split read no field but 'label': short texts do
Human(i) == SegRec(Word(i), 0, "hc3", "qa", "original_short")
AI(i) == SegRec(Word(i), 1, "gpt_wiki", "wiki", "original_short")
\* int(label) of download_ai_detection_pile keeps an integer label as it is
Other(i) == SegRec(Word(i), 2, "pile_unknown", "essay", "original_short")

RECURSIVE Interleave(_, _)
Interleave(s, t) ==
    IF s = <<>> THEN t
    ELSE IF t = <<>> THEN s
    ELSE <<Head(s), Head(t)>> \o Interleave(Tail(s), Tail(t))

BalInputs ==
    UNION {
      LET h == [i \in 1..nh |-> Human(i)]
          a == [i \in 1..na |-> AI(i)]
          o == [i \in 1..no |-> Other(i)]
      IN  {Interleave(a, Interleave(o, h))} :
      <<nh, na, no>> \in {c \in (0..MaxBalRecords) \X (0..MaxBalRecords) \X (0..1) :
                            c[1] + c[2] + c[3] <= MaxBalRecords} }

CnvIdle ==
    /\ tfjs_dir = {} /\ written = {} /\ returncode = -1
    /\ conv_result = "none" /\ conv_pc = "idle"

SegIdle ==
    data = <<>> /\ max_length = 0 /\ short_samples = <<>> /\ seg_pc = "idle"

ExpIdle ==
    /\ skip_onnx = FALSE /\ arg_max_length = 0 /\ model_path = "" /\ stale = {}
    /\ fs = {} /\ saved_model = [route |-> "none"] /\ manifest = "none"
    /\ tokenizer_config = [written |-> FALSE] /\ stages = <<>> /\ error = ""
    /\ exp_pc = "idle"

SrvIdle ==
    /\ model = "None" /\ tokenizer = "None" /\ device = "None"
    /\ srv_pc = "idle" /\ response = [kind |-> "none"] /\ n_requests = 0

AsmIdle ==
    /\ max_samples = 0 /\ upstream = <<>> /\ all_data = <<>> /\ returned = <<>>
    /\ warnings = {}
    /\ saved = <<>> /\ stats = [written |-> FALSE] /\ asm_error = ""

BalIdle ==
    /\ short_data = <<>> /\ balanced_data = <<>> /\ train_data = <<>>
    /\ val_data = <<>> /\ test_data = <<>> /\ bal_pc = "idle"

(***************************************************************************)
(* Specification of the balancer and the splitter                          *)
(***************************************************************************)
BalInit ==
    /\ short_data \in BalInputs
    /\ balanced_data = <<>>
    /\ train_data = <<>> /\ val_data = <<>> /\ test_data = <<>>
    /\ bal_pc = "balance"
    /\ SegIdle /\ ExpIdle /\ SrvIdle /\ AsmIdle /\ CnvIdle

\* balanced_data = balance_dataset(short_data)
BalanceDataset ==
    /\ bal_pc = "balance"
    /\ balanced_data' \in balance_dataset(short_data)
    /\ bal_pc' = "split"
    /\ UNCHANGED <<short_data, train_data, val_data, test_data, notBal>>

\* random.shuffle(balanced_data) and the three slices
SplitData ==
    /\ bal_pc = "split"
    /\ balanced_data' \in Shuffles(balanced_data)
    /\ train_data' = SplitOf(balanced_data').train
    /\ val_data' = SplitOf(balanced_data').val
    /\ test_data' = SplitOf(balanced_data').test
    /\ bal_pc' = "save"
    /\ UNCHANGED <<short_data, notBal>>

BalNext == BalanceDataset \/ SplitData

SpecBal == BalInit /\ [][BalNext]_vars

(***************************************************************************)
(* Specification of the segmenter: the inputs, then the call               *)
(***************************************************************************)
SegInit ==
    /\ BalIdle /\ ExpIdle /\ SrvIdle /\ AsmIdle /\ CnvIdle
    /\ data \in SegInputs
    /\ max_length \in MaxLengths
    /\ short_samples = <<>>
    /\ seg_pc = "start"

CreateShortTextSamples ==
    /\ seg_pc = "start"
    /\ short_samples' = create_short_text_samples(data, max_length)
    /\ seg_pc' = "done"
    /\ UNCHANGED <<data, max_length, notSeg>>

SegNext == CreateShortTextSamples

SpecSeg == SegInit /\ [][SegNext]_vars

(***************************************************************************)
(* Claims about the segmenter                                              *)
(***************************************************************************)
IsChunked(seg) == seg.text_type = "chunked"

\* C1: every segment returned by create_short_text_samples has a text of at
\* most max_length characters, and every segment tagged 'chunked' has a text
\* of at least 30 characters, whatever the record list and max_length are.
C1_SegmentLengths ==
    seg_pc = "done" =>
        \A i \in 1..Len(short_samples) :
            /\ Len(short_samples[i].text) <= max_length
            /\ IsChunked(short_samples[i]) => Len(short_samples[i].text) >= 30

\* a chunk that fills max_length exactly has been emitted, next to a text
\* that was longer than max_length
C1_Witness ==
    /\ seg_pc = "done"
    /\ \E i \in 1..Len(short_samples) :
          IsChunked(short_samples[i]) /\ Len(short_samples[i].text) = max_length
    /\ \E j \in 1..Len(data) : Len(data[j].text) > max_length

ScenarioRun ==
    seg_pc = "done" /\ data = <<ScenarioRecord>> /\ max_length = 280

\* C2 as stated: for {text: "A"*500, label: AI} and max_length = 280 the
\* segmenter yields at least one segment, none longer than 280 characters,
\* all tagged 'chunked' and labeled AI.
C2_ScenarioYieldsChunk ==
    ScenarioRun =>
        /\ Len(short_samples) >= 1
        /\ \A i \in 1..Len(short_samples) :
              /\ Len(short_samples[i].text) <= 280
              /\ IsChunked(short_samples[i])
              /\ short_samples[i].label = 1

\* C2 as amended: for {text: "A"*500, label: AI} and max_length = 280 the
\* segmenter yields no segment at all (the only sentence is longer than
\* max_length and is dropped), so no segment exceeds 280 characters.
C2_ScenarioYieldsNothing == ScenarioRun => short_samples = <<>>

C2_Witness == ScenarioRun /\ Len(data[1].text) = 500 /\ data[1].label = 1

IsShort(item) == Len(item.text) <= max_length

AsOriginalShort(item) ==
    [text |-> item.text, label |-> item.label, source |-> item.source,
     category |-> item.category, text_type |-> "original_short"]

\* C3: a record whose text has at most max_length characters produces exactly
\* one segment: the same text, label, source and category, tagged
\* 'original_short'.  Over a list: the segments tagged 'original_short' are
\* the short records, in order, and a list of short records only produces
\* nothing else.
C3_ShortUnchanged ==
    seg_pc = "done" =>
        LET shorts == SelectSeq(data, IsShort)
            tagged == [i \in 1..Len(shorts) |-> AsOriginalShort(shorts[i])]
        IN  /\ SelectSeq(short_samples, LAMBDA g : ~IsChunked(g)) = tagged
            /\ (Len(shorts) = Len(data)) => short_samples = tagged

\* a text of exactly max_length characters next to a longer one
C3_Witness ==
    /\ seg_pc = "done"
    /\ max_length > 0
    /\ \E i \in 1..Len(data) : Len(data[i].text) = max_length
    /\ \E j \in 1..Len(data) : Len(data[j].text) > max_length
    /\ \E k \in 1..Len(short_samples) : ~IsChunked(short_samples[k])

(***************************************************************************)
(* Claims about the balancer and the splitter                              *)
(***************************************************************************)
Count(s, l) == Len(SelectSeq(s, LAMBDA r : r.label = l))

Range(s) == {s[i] : i \in 1..Len(s)}

Balanced == bal_pc \in {"split", "save"}

\* C4: the output of balance_dataset holds as many label-0 (Human) records
\* as label-1 (AI) records, and its length is 2 * min(number of Human inputs,
\* number of AI inputs).
C4_BalancedCounts ==
    Balanced =>
        /\ Count(balanced_data, 0) = Count(balanced_data, 1)
        /\ Len(balanced_data) = 2 * Min(Count(short_data, 0), Count(short_data, 1))

\* the majority class was cut down, and a record of neither class left out
C4_Witness ==
    /\ bal_pc = "split"
    /\ Count(short_data, 0) > Count(short_data, 1)
    /\ Count(short_data, 1) >= 2
    /\ Count(short_data, 2) = 1
    /\ Len(balanced_data) = 2 * Count(short_data, 1)

\* C5: train, val and test are pairwise disjoint (no record of the shuffled
\* set is in more than one of them) and together hold exactly the n records
\* of the balanced set: they are the shuffled list cut in three.
C5_SplitPartition ==
    bal_pc = "save" =>
        /\ train_data \o val_data \o test_data = balanced_data
        /\ Range(train_data) \cap Range(val_data) = {}
        /\ Range(train_data) \cap Range(test_data) = {}
        /\ Range(val_data) \cap Range(test_data) = {}
        /\ Len(train_data) + Len(val_data) + Len(test_data) = Len(balanced_data)
        /\ Len(balanced_data) = 2 * Min(Count(short_data, 0), Count(short_data, 1))

\* a split in which none of the three sets is empty
C5_Witness ==
    /\ bal_pc = "save"
    /\ Len(balanced_data) = 6
    /\ Len(train_data) = 4 /\ Len(val_data) = 1 /\ Len(test_data) = 1

(***************************************************************************)
(* The export pipeline: main() of export_model.py (221-279) and the        *)
(* functions it calls.  A file is named by its path under the output       *)
(* directory.  Loading a model or a tokenizer, a conversion, the converter *)
(* subprocess and a deletion may each succeed or fail.                     *)
(***************************************************************************)
\* default of the max_length parameter of export_to_saved_model_direct
DefaultMaxLength == 128
\* "max_length" of the tokenizer config written by copy_tokenizer_files
TokenizerMaxLength == 128

ArgMaxLengths == {64, 128}
ModelPaths == {"models/final", "models/distilbert-ai-detector/final"}
\* onnx_path.parent.parent / "final", for --output models/tfjs
OutputParentFinal == "models/final"

Intermediates == {"model.onnx", "saved_model"}
GroupBins == {"tfjs/group1-shard1of2.bin", "tfjs/group1-shard2of2.bin"}
ConverterFiles == {"tfjs/model.json"} \cup GroupBins
TokenizerFiles == {"tfjs/vocab.json", "tfjs/tokenizer_config.json"}

\* tfjs_path.glob("group*.bin")
WeightFiles(files) == files \cap GroupBins

Stage(name, ok) == [stage |-> name, ok |-> ok]

\* a SavedModel written by tf_rep.export_graph or tf.saved_model.save
SavedModel(route, src, len) == [route |-> route, src |-> src, len |-> len]

\* raise out of main(): the run ends with the exception
Abort(exc) == error' = exc /\ exp_pc' = "aborted"

ExpInit ==
    /\ skip_onnx \in BOOLEAN
    /\ arg_max_length \in ArgMaxLengths
    /\ model_path \in ModelPaths
    /\ stale \in SUBSET Intermediates
    /\ fs = stale
    /\ saved_model = [route |-> "none"]
    /\ manifest = "none"
    /\ tokenizer_config = [written |-> FALSE]
    /\ stages = <<>>
    /\ error = ""
    /\ exp_pc = "start"
    /\ SegIdle /\ BalIdle /\ SrvIdle /\ AsmIdle /\ CnvIdle

\* export_to_onnx called outside the try block: its failure ends the run
ExportToOnnx_NoTry ==
    /\ exp_pc = "start" /\ ~skip_onnx
    /\ \/ /\ fs' = fs \cup {"model.onnx"}
          /\ stages' = Append(stages, Stage("onnx", TRUE))
          /\ exp_pc' = "saved_model"
          /\ UNCHANGED error
       \/ /\ stages' = Append(stages, Stage("onnx", FALSE))
          /\ Abort("Exception: export_to_onnx")
          /\ UNCHANGED fs
    /\ UNCHANGED <<expArgs, saved_model, manifest, tokenizer_config, notExp>>

\* main 244-246: export_to_onnx(model_path, output_path, args.max_length)
\* inside the try block
ExportToOnnx ==
    /\ exp_pc = "start" /\ ~skip_onnx
    /\ \/ /\ fs' = fs \cup {"model.onnx"}
          /\ stages' = Append(stages, Stage("onnx", TRUE))
          /\ exp_pc' = "saved_model"
       \/ /\ stages' = Append(stages, Stage("onnx", FALSE))
          /\ exp_pc' = "fallback"
          /\ UNCHANGED fs
    /\ UNCHANGED <<expArgs, saved_model, manifest, tokenizer_config, error,
                   notExp>>

\* main 247: export_to_saved_model(onnx_path, output_path) inside the try
\* block.  It converts (61-80); on ImportError it calls
\* export_to_saved_model_direct(onnx_path.parent.parent / "final",
\* output_path) (82-84); whatever it raises is caught by main (248).
ExportToSavedModel ==
    /\ exp_pc = "saved_model"
    /\ \/ /\ fs' = fs \cup {"saved_model"}
          /\ saved_model' = SavedModel("onnx", model_path, arg_max_length)
          /\ stages' = Append(stages, Stage("saved_model", TRUE))
          /\ exp_pc' = "tfjs"
       \/ /\ stages' = Append(stages, Stage("saved_model", FALSE))
          /\ exp_pc' = "fallback"
          /\ UNCHANGED <<fs, saved_model>>
       \/ /\ fs' = fs \cup {"saved_model"}
          /\ saved_model' = SavedModel("direct", OutputParentFinal, DefaultMaxLength)
          /\ stages' = stages \o <<Stage("saved_model", FALSE), Stage("direct", TRUE)>>
          /\ exp_pc' = "tfjs"
       \/ /\ stages' = stages \o <<Stage("saved_model", FALSE), Stage("direct", FALSE)>>
          /\ exp_pc' = "fallback"
          /\ UNCHANGED <<fs, saved_model>>
    /\ UNCHANGED <<expArgs, manifest, tokenizer_config, error, notExp>>

\* export_to_saved_model_direct(model_path, output_path, args.max_length)
\* called by main: it re-raises what fails (129-131), which ends the run
DirectFromMain ==
    \/ /\ fs' = fs \cup {"saved_model"}
       /\ saved_model' = SavedModel("direct", model_path, arg_max_length)
       /\ stages' = Append(stages, Stage("direct", TRUE))
       /\ exp_pc' = "tfjs"
       /\ UNCHANGED error
    \/ /\ stages' = Append(stages, Stage("direct", FALSE))
       /\ Abort("Exception: direct conversion failed")
       /\ UNCHANGED <<fs, saved_model>>

\* main 248-250: the except branch
FallbackDirect ==
    /\ exp_pc = "fallback"
    /\ DirectFromMain
    /\ UNCHANGED <<expArgs, manifest, tokenizer_config, notExp>>

\* main 251-252: --skip-onnx
SkipOnnxDirect ==
    /\ exp_pc = "start" /\ skip_onnx
    /\ DirectFromMain
    /\ UNCHANGED <<expArgs, manifest, tokenizer_config, notExp>>

\* what tensorflowjs_converter leaves in tfjs_path
ConverterWrites ==
    \E produced \in SUBSET ConverterFiles :
        /\ fs' = fs \cup produced
        /\ IF "tfjs/model.json" \in produced
           THEN manifest' \in {"format", "noformat"}
           ELSE UNCHANGED manifest

\* export_to_tfjs going on after a non-zero exit status
ExportToTfjs_IgnoreReturnCode ==
    /\ exp_pc = "tfjs"
    /\ ConverterWrites
    /\ \/ /\ stages' = Append(stages, Stage("tfjs", TRUE))
          /\ exp_pc' = "tokenizer"
          /\ UNCHANGED error
       \/ /\ stages' = Append(stages, Stage("tfjs", FALSE))
          /\ exp_pc' = "tokenizer"
          /\ UNCHANGED error
    /\ UNCHANGED <<expArgs, saved_model, tokenizer_config, notExp>>

\* export_to_tfjs deleting the SavedModel as soon as it is converted
ExportToTfjs_CleansEarly ==
    /\ exp_pc = "tfjs"
    /\ \E produced \in SUBSET ConverterFiles :
          /\ fs' = (fs \cup produced) \ {"saved_model"}
          /\ IF "tfjs/model.json" \in produced
             THEN manifest' \in {"format", "noformat"}
             ELSE UNCHANGED manifest
    /\ \/ /\ stages' = Append(stages, Stage("tfjs", TRUE))
          /\ exp_pc' = "tokenizer"
          /\ UNCHANGED error
       \/ /\ stages' = Append(stages, Stage("tfjs", FALSE))
          /\ Abort("RuntimeError: TensorFlow.js conversion failed")
    /\ UNCHANGED <<expArgs, saved_model, tokenizer_config, notExp>>

\* main 255: export_to_tfjs(saved_model_path, output_path) (134-163): the
\* converter runs; a non-zero returncode raises RuntimeError
ExportToTfjs ==
    /\ exp_pc = "tfjs"
    /\ ConverterWrites
    /\ \/ /\ stages' = Append(stages, Stage("tfjs", TRUE))
          /\ exp_pc' = "tokenizer"
          /\ UNCHANGED error
       \/ /\ stages' = Append(stages, Stage("tfjs", FALSE))
          /\ Abort("RuntimeError: TensorFlow.js conversion failed")
    /\ UNCHANGED <<expArgs, saved_model, tokenizer_config, notExp>>

\* main 258: copy_tokenizer_files(model_path, tfjs_path) (166-192)
CopyTokenizerFiles ==
    /\ exp_pc = "tokenizer"
    /\ \/ /\ fs' = fs \cup TokenizerFiles
          /\ tokenizer_config' = [written |-> TRUE, max_length |-> TokenizerMaxLength]
          /\ stages' = Append(stages, Stage("tokenizer", TRUE))
          /\ exp_pc' = "verify"
          /\ UNCHANGED error
       \/ /\ stages' = Append(stages, Stage("tokenizer", FALSE))
          /\ Abort("Exception: DistilBertTokenizer.from_pretrained")
          /\ UNCHANGED <<fs, tokenizer_config>>
    /\ UNCHANGED <<expArgs, saved_model, manifest, notExp>>

\* verify_export without the check for weight files
VerifyExport_NoWeightCheck ==
    /\ exp_pc = "verify"
    /\ IF "tfjs/model.json" \notin fs
       THEN /\ stages' = Append(stages, Stage("verify", FALSE))
            /\ Abort("FileNotFoundError: Missing required file: model.json")
       ELSE /\ stages' = Append(stages, Stage("verify", TRUE))
            /\ exp_pc' = "cleanup"
            /\ UNCHANGED error
    /\ UNCHANGED <<expArgs, fs, saved_model, manifest, tokenizer_config,
                   notExp>>

\* main 261: verify_export(tfjs_path) (195-218).  model_json.get('format',
\* 'unknown') raises nothing, whatever the manifest declares.
VerifyExport ==
    /\ exp_pc = "verify"
    /\ IF "tfjs/model.json" \notin fs
       THEN /\ stages' = Append(stages, Stage("verify", FALSE))
            /\ Abort("FileNotFoundError: Missing required file: model.json")
       ELSE IF WeightFiles(fs) = {}
       THEN /\ stages' = Append(stages, Stage("verify", FALSE))
            /\ Abort("FileNotFoundError: No weight files found")
       ELSE /\ stages' = Append(stages, Stage("verify", TRUE))
            /\ exp_pc' = "cleanup"
            /\ UNCHANGED error
    /\ UNCHANGED <<expArgs, fs, saved_model, manifest, tokenizer_config,
                   notExp>>

\* main 263-270: unlink model.onnx and rmtree saved_model where they exist;
\* a deletion that fails raises out of main
Cleanup ==
    /\ exp_pc = "cleanup"
    /\ \/ /\ fs' = fs \ Intermediates
          /\ stages' = Append(stages, Stage("cleanup", TRUE))
          /\ exp_pc' = "done"
          /\ UNCHANGED error
       \/ /\ "model.onnx" \in fs
          /\ stages' = Append(stages, Stage("cleanup", FALSE))
          /\ Abort("OSError: unlink model.onnx")
          /\ UNCHANGED fs
       \/ /\ "saved_model" \in fs
          /\ fs' = fs \ {"model.onnx"}
          /\ stages' = Append(stages, Stage("cleanup", FALSE))
          /\ Abort("OSError: rmtree saved_model")
    /\ UNCHANGED <<expArgs, saved_model, manifest, tokenizer_config, notExp>>

ExpNext ==
    \/ ExportToOnnx
    \/ ExportToSavedModel
    \/ FallbackDirect
    \/ SkipOnnxDirect
    \/ ExportToTfjs
    \/ CopyTokenizerFiles
    \/ VerifyExport
    \/ Cleanup

SpecExport == ExpInit /\ [][ExpNext]_vars

(***************************************************************************)
(* Claims about the export pipeline                                        *)
(***************************************************************************)
Ran(name, ok) == \E i \in 1..Len(stages) : stages[i] = Stage(name, ok)

\* the place of a stage in the chain; the three conversions that produce
\* the intermediate SavedModel are one stage
Rank(name) ==
    CASE name \in {"onnx", "saved_model", "direct"} -> 1
      [] name = "tfjs" -> 2
      [] name = "tokenizer" -> 3
      [] name = "verify" -> 4
      [] name = "cleanup" -> 5

StagesInOrder ==
    /\ \A i, j \in 1..Len(stages) :
          i < j => Rank(stages[i].stage) <= Rank(stages[j].stage)
    /\ \A j \in 1..Len(stages) :
          Rank(stages[j].stage) > 1 =>
              /\ j > 1
              /\ stages[j - 1].ok
              /\ Rank(stages[j - 1].stage) = Rank(stages[j].stage) - 1
              /\ stages[j - 1].stage # "onnx"

\* C6: the stages of an export run execute strictly in the order
\* intermediate conversion, TensorFlow.js conversion, tokenizer copy,
\* verification, cleanup; a stage starts only after the previous stage
\* succeeded; and model.onnx and saved_model are deleted only in a step
\* taken after verify_export has returned successfully.
C6_SequentialStages ==
    /\ []StagesInOrder
    /\ [][(fs \cap Intermediates) \ fs' # {} => Ran("verify", TRUE)]_vars

\* a run through the ONNX route that ended with both intermediates deleted
C6_Witness ==
    /\ exp_pc = "done"
    /\ Ran("onnx", TRUE) /\ Ran("saved_model", TRUE)
    /\ Len(stages) = 6
    /\ fs \cap Intermediates = {}

PrimaryFailed == Ran("onnx", FALSE) \/ Ran("saved_model", FALSE)

VerificationCriteria(files) ==
    "tfjs/model.json" \in files /\ WeightFiles(files) # {}

\* C7: if the primary (ONNX) route fails at any point, the run gets to the
\* TensorFlow.js conversion through the direct route and through it only
\* (it stops before that conversion only when the direct route itself has
\* failed), and a bundle that passes verification meets the same criteria
\* whichever route produced it.
C7_FallbackEquivalent ==
    /\ (PrimaryFailed /\ exp_pc \in {"tfjs", "tokenizer", "verify", "cleanup", "done"})
          => /\ saved_model.route = "direct"
             /\ stages[Len(stages)] # Stage("saved_model", FALSE)
    /\ (PrimaryFailed /\ exp_pc = "aborted" /\ ~Ran("tfjs", TRUE) /\ ~Ran("tfjs", FALSE))
          => stages[Len(stages)] = Stage("direct", FALSE)
    /\ exp_pc \in {"cleanup", "done"}
          => /\ saved_model.route \in {"onnx", "direct"}
             /\ VerificationCriteria(fs)

\* the ONNX export failed and the run was completed through the direct route
C7_Witness ==
    /\ exp_pc = "done"
    /\ Ran("onnx", FALSE)
    /\ saved_model.route = "direct"
    /\ VerificationCriteria(fs)

\* C8: whenever an invocation of the direct (fallback) route fails, the run
\* aborts with an error, and no later stage or further conversion attempt is
\* executed.
C8_FallbackFailureFatal ==
    \A i \in 1..Len(stages) :
        stages[i] = Stage("direct", FALSE) =>
            i = Len(stages) /\ exp_pc = "aborted"

\* C9: if the converter exits with a non-zero status, export_to_tfjs raises
\* and the run aborts: the tokenizer files are not written, verification is
\* not run and the intermediate files are not deleted.
C9_ConverterFailureAborts ==
    Ran("tfjs", FALSE) =>
        /\ exp_pc = "aborted"
        /\ error = "RuntimeError: TensorFlow.js conversion failed"
        /\ stages[Len(stages)] = Stage("tfjs", FALSE)
        /\ fs \cap TokenizerFiles = {}
        /\ ~tokenizer_config.written
        /\ "saved_model" \in fs
        /\ ("model.onnx" \in stale \/ Ran("onnx", TRUE)) => "model.onnx" \in fs

\* the converter failed after the ONNX route had written both intermediates
C9_Witness ==
    /\ Ran("tfjs", FALSE)
    /\ Ran("onnx", TRUE) /\ Ran("saved_model", TRUE)
    /\ exp_pc = "aborted"

\* C10: verify_export succeeds only if the bundle directory holds model.json
\* and at least one file matching group*.bin; when either is missing it
\* raises an error (naming model.json when model.json is the missing file)
\* and the run never gets to the cleanup.
C10_VerifyExport ==
    /\ Ran("verify", TRUE) => VerificationCriteria(fs)
    /\ Ran("verify", FALSE) =>
          /\ ~VerificationCriteria(fs)
          /\ exp_pc = "aborted"
          /\ ~Ran("cleanup", TRUE) /\ ~Ran("cleanup", FALSE)
          /\ "saved_model" \in fs
          /\ error = IF "tfjs/model.json" \notin fs
                     THEN "FileNotFoundError: Missing required file: model.json"
                     ELSE "FileNotFoundError: No weight files found"

\* verification failed for a bundle that has weight files and no model.json
C10_Witness ==
    /\ Ran("verify", FALSE)
    /\ "tfjs/model.json" \notin fs
    /\ WeightFiles(fs) # {}
    /\ error = "FileNotFoundError: Missing required file: model.json"

\* C11: verify_export fails with a verification error when the manifest
\* (model.json) declares no 'format' field: a bundle whose manifest lacks
\* 'format' is never verified.
C11_FormatRequired ==
    Ran("verify", TRUE) => manifest = "format"

\* C12: a deletion of model.onnx or saved_model that fails during the cleanup
\* after a successful verification is not fatal: the run still finishes
\* successfully instead of raising.
C12_CleanupFailureNotFatal ==
    (Ran("verify", TRUE) /\ Ran("cleanup", FALSE)) =>
        exp_pc = "done" /\ error = ""

(***************************************************************************)
(* The prediction service: inference-python/main.py.  The handlers are     *)
(* coroutines that never await: each runs from its first to its last line  *)
(* before the event loop runs another one.  A client that does not run the *)
(* lifespan (a call of the handler, a test client used without its         *)
(* context) reaches the handlers with the globals still None.              *)
(***************************************************************************)
\* len(text) > 1000
MaxTextLen == 1000

X(n) == [i \in 1..n |-> "x"]

\* request texts: empty, blank, ordinary, at and over the limit, and over
\* the limit only by the whitespace around them
RequestTexts ==
    { <<>>, <<" ", "\n">>, <<"h", "i", " ", "y", "o", "u">>,
      X(MaxTextLen), X(MaxTextLen + 1),
      <<" ">> \o X(MaxTextLen) \o <<"\n">>,
      <<" ">> \o X(MaxTextLen + 1) }

\* round(ai_prob, 4) and round(human_prob, 4), in ten-thousandths
Probs == {[aiProb |-> 9988, humanProb |-> 12], [aiProb |-> 5000, humanProb |-> 5000]}

\* str(e) of what predict_internal can raise
Exceptions == {"CUDA out of memory", "index out of range in self"}

Devices == {"cuda", "cpu"}

Loaded == model # "None" /\ tokenizer # "None"

SrvInit ==
    /\ model = "None" /\ tokenizer = "None" /\ device = "None"
    /\ srv_pc = "created"
    /\ response = [kind |-> "none"]
    /\ n_requests = 0
    /\ SegIdle /\ BalIdle /\ ExpIdle /\ AsmIdle /\ CnvIdle

StartupFailed(step) == response' = [kind |-> "startup_failed", step |-> step]

\* load_model_sync with an except branch that does not re-raise
LoadModelSync_Swallow ==
    /\ srv_pc = "created"
    /\ device' \in Devices
    /\ \/ /\ tokenizer' = "None" /\ model' = "None"
          /\ StartupFailed("tokenizer") /\ srv_pc' = "serving"
       \/ /\ tokenizer' = "loaded" /\ model' = "None"
          /\ StartupFailed("model") /\ srv_pc' = "serving"
       \/ /\ tokenizer' = "loaded" /\ model' = "loaded"
          /\ StartupFailed("to_device") /\ srv_pc' = "serving"
       \/ /\ tokenizer' = "loaded" /\ model' = "loaded"
          /\ StartupFailed("warmup") /\ srv_pc' = "serving"
       \/ /\ tokenizer' = "loaded" /\ model' = "loaded"
          /\ response' = [kind |-> "started"] /\ srv_pc' = "serving"
    /\ UNCHANGED <<n_requests, notSrv>>

\* lifespan (98-102) running load_model_sync (58-95): the device is set,
\* then the tokenizer and the model are loaded, the model is moved to the
\* device and a warmup prediction is made; what any of these raises is
\* re-raised (93-95) out of the lifespan, and the application does not start
LoadModelSync ==
    /\ srv_pc = "created"
    /\ device' \in Devices
    /\ \/ /\ tokenizer' = "None" /\ model' = "None"
          /\ StartupFailed("tokenizer") /\ srv_pc' = "failed"
       \/ /\ tokenizer' = "loaded" /\ model' = "None"
          /\ StartupFailed("model") /\ srv_pc' = "failed"
       \/ /\ tokenizer' = "loaded" /\ model' = "loaded"
          /\ StartupFailed("to_device") /\ srv_pc' = "failed"
       \/ /\ tokenizer' = "loaded" /\ model' = "loaded"
          /\ StartupFailed("warmup") /\ srv_pc' = "failed"
       \/ /\ tokenizer' = "loaded" /\ model' = "loaded"
          /\ response' = [kind |-> "started"] /\ srv_pc' = "serving"
    /\ UNCHANGED <<n_requests, notSrv>>

\* a request reaches a handler
Handling ==
    /\ srv_pc \in {"created", "serving"}
    /\ n_requests < MaxRequests
    /\ n_requests' = n_requests + 1
    /\ UNCHANGED <<srv_pc, notSrv>>

\* health_check (132-140)
HealthCheck ==
    /\ Handling
    /\ response' = [kind |-> "health", status |-> 200,
                    body |-> [status |-> "healthy",
                              modelLoaded |-> model # "None",
                              tokenizerLoaded |-> tokenizer # "None",
                              device |-> device]]
    /\ UNCHANGED <<model, tokenizer, device>>

\* the response to POST /predict: the HTTP status, the detail of an
\* HTTPException or the body, whether predict_internal was called and what
\* it raised
Reply(text, status, detail, body, inferred, exc) ==
    response' = [kind |-> "predict", text |-> text, status |-> status,
                 detail |-> detail, body |-> body, inferred |-> inferred,
                 exc |-> exc]

NoBody == [aiProb |-> -1, humanProb |-> -1]

\* predict 159-166: predict_internal returns or raises
Infer(text) ==
    \/ \E pr \in Probs : Reply(text, 200, "", pr, TRUE, "")
    \/ \E e \in Exceptions : Reply(text, 500, "Prediction failed", NoBody, TRUE, e)

\* predict 151-157: the checks of the stripped text
Validate(text, stripped) ==
    IF stripped = <<>> THEN Reply(text, 400, "Text is required", NoBody, FALSE, "")
    ELSE IF Len(stripped) > MaxTextLen
    THEN Reply(text, 400, "Text too long (max 1000 chars)", NoBody, FALSE, "")
    ELSE Infer(text)

\* predict checking the text before it checks that the model is loaded
PredictOn_ValidateFirst(text) ==
    /\ IF Strip(text) = <<>> \/ Len(Strip(text)) > MaxTextLen
       THEN Validate(text, Strip(text))
       ELSE IF ~Loaded
       THEN Reply(text, 503, "Model not loaded", NoBody, FALSE, "")
       ELSE Validate(text, Strip(text))
    /\ UNCHANGED <<model, tokenizer, device>>

\* predict checking the text as it was sent
PredictOn_NoStrip(text) ==
    /\ IF ~Loaded
       THEN Reply(text, 503, "Model not loaded", NoBody, FALSE, "")
       ELSE Validate(text, text)
    /\ UNCHANGED <<model, tokenizer, device>>

\* predict putting str(e) into the detail of the 500 response
PredictOn_LeakDetail(text) ==
    /\ IF ~Loaded
       THEN Reply(text, 503, "Model not loaded", NoBody, FALSE, "")
       ELSE IF Strip(text) = <<>> \/ Len(Strip(text)) > MaxTextLen
       THEN Validate(text, Strip(text))
       ELSE \/ \E pr \in Probs : Reply(text, 200, "", pr, TRUE, "")
            \/ \E e \in Exceptions : Reply(text, 500, e, NoBody, TRUE, e)
    /\ UNCHANGED <<model, tokenizer, device>>

\* predict dropping the model when the inference raises
PredictOn_ResetOnError(text) ==
    /\ IF ~Loaded
       THEN Reply(text, 503, "Model not loaded", NoBody, FALSE, "")
       ELSE Validate(text, Strip(text))
    /\ model' = IF response'.status = 500 THEN "None" ELSE model
    /\ UNCHANGED <<tokenizer, device>>

\* predict (143-166) for a request with this text
PredictOn(text) ==
    /\ IF ~Loaded
       THEN Reply(text, 503, "Model not loaded", NoBody, FALSE, "")
       ELSE Validate(text, Strip(text))
    /\ UNCHANGED <<model, tokenizer, device>>

Predict == Handling /\ \E text \in RequestTexts : PredictOn(text)

SrvNext == LoadModelSync \/ HealthCheck \/ Predict

SpecServe == SrvInit /\ [][SrvNext]_vars

IsPredictReply == response.kind = "predict"

\* C13: whenever the model or the tokenizer is not loaded, the response to
\* POST /predict is 503 with detail "Model not loaded" for every request
\* text, the empty and the over-long ones included, and predict_internal
\* has not been called.
C13_NotLoaded503 ==
    (IsPredictReply /\ ~Loaded) =>
        /\ response.status = 503
        /\ response.detail = "Model not loaded"
        /\ ~response.inferred

\* the 503 was given to an over-long text and to an empty one
C13_Witness ==
    /\ IsPredictReply /\ ~Loaded
    /\ response.status = 503
    /\ Len(response.text) > MaxTextLen

\* C14 as stated: with model and tokenizer loaded, a request text that is
\* empty or longer than 1000 characters gets 400 and no inference.
C14_RawTextRejected ==
    (IsPredictReply /\ Loaded /\
     (response.text = <<>> \/ Len(response.text) > MaxTextLen)) =>
        response.status = 400 /\ ~response.inferred

\* C14: with model and tokenizer loaded, POST /predict responds 400 and
\* runs no inference exactly when the request text, with its leading and
\* trailing whitespace removed, is empty or longer than 1000 characters.
C14_StrippedTextRejected ==
    (IsPredictReply /\ Loaded) =>
        ((Strip(response.text) = <<>> \/ Len(Strip(response.text)) > MaxTextLen)
            <=> (response.status = 400 /\ ~response.inferred))

\* a text whose stripped form is longer than 1000 characters was answered
\* with 400 by the loaded service
C14_Witness ==
    /\ IsPredictReply /\ Loaded
    /\ Len(Strip(response.text)) > MaxTextLen
    /\ Len(Strip(response.text)) < Len(response.text)
    /\ response.status = 400 /\ ~response.inferred

\* C15: with the model loaded and a valid text, an exception raised by the
\* inference gives a 500 response whose detail is "Prediction failed" and
\* is none of the exception's text.
C15_GenericFailure ==
    (IsPredictReply /\ response.exc # "") =>
        /\ Loaded
        /\ response.status = 500
        /\ response.detail = "Prediction failed"
        /\ response.detail # response.exc
        /\ response.body = NoBody

C15_Witness ==
    /\ IsPredictReply /\ Loaded
    /\ response.exc \in Exceptions
    /\ response.status = 500

\* C16: when a step of load_model_sync fails, the exception leaves the
\* lifespan and the application does not serve: in the serving state the
\* tokenizer and the model are loaded, the device is set and no load step
\* has failed, and after a failed start no request is handled.
C16_NoPartialServing ==
    /\ srv_pc = "serving" => (Loaded /\ device \in Devices)
    /\ response.kind = "startup_failed" => srv_pc = "failed"
    /\ srv_pc = "failed" => response.kind = "startup_failed"

\* the model load failed after the tokenizer was loaded
C16_Witness ==
    /\ srv_pc = "failed"
    /\ response = [kind |-> "startup_failed", step |-> "model"]
    /\ tokenizer = "loaded" /\ model = "None"

\* C17: only load_model_sync writes the model, tokenizer and device
\* handles: every /predict and /health step leaves them unchanged, and
\* /health reports the loaded flags and the device they have.
C17_HandlesReadOnly ==
    /\ [][n_requests' # n_requests => UNCHANGED <<model, tokenizer, device>>]_vars
    /\ [](response.kind = "health" =>
            /\ response.body.modelLoaded = (model # "None")
            /\ response.body.tokenizerLoaded = (tokenizer # "None")
            /\ response.body.device = device)

\* a health check answered by the started service after other requests
C17_Witness ==
    /\ srv_pc = "serving" /\ n_requests = MaxRequests
    /\ response.kind = "health"
    /\ response.body.modelLoaded /\ response.body.tokenizerLoaded
    /\ response.body.device \in Devices

(***************************************************************************)
(* The connectors of download_datasets.py.  An upstream dataset either     *)
(* fails to load or is a sequence of items; an item with raise set is the  *)
(* point where the iteration raises (the stream breaks, the item is not a  *)
(* mapping).  A connector is computed to the records it returns and        *)
(* whether its except branch ran.                                          *)
(***************************************************************************)
\* len(text.strip()) > 20
MinTextLen == 20
\* max_samples or 10000
DefaultSampleGate == 10000
\* create_short_text_samples(all_data, max_length=280)
TweetLength == 280

Src(ok, items) == [load_ok |-> ok, items |-> items]
Out(d, r) == [data |-> d, raised |-> r]

\* if text and len(text.strip()) > 20: all_data.append({...})
AppendIf(acc, text, label, source, category) ==
    IF Len(Strip(text)) > MinTextLen
    THEN Append(acc, Rec(Strip(text), label, source, category))
    ELSE acc

\* if max_samples and len(all_data) >= max_samples: break
Full(acc, ms) == ms > 0 /\ Len(acc) >= ms

RECURSIVE Hc3Answers(_, _, _)
Hc3Answers(acc, answers, label) ==
    IF answers = <<>> THEN acc
    ELSE Hc3Answers(AppendIf(acc, Head(answers), label, "hc3", "qa"),
                    Tail(answers), label)

RECURSIVE Hc3Loop(_, _, _)
Hc3Loop(items, acc, ms) ==
    IF items = <<>> THEN Out(acc, FALSE)
    ELSE IF Head(items).raise THEN Out(acc, TRUE)
    ELSE LET item == Head(items)
             acc2 == Hc3Answers(Hc3Answers(acc, item.human_answers, 0),
                                item.chatgpt_answers, 1)
         IN  IF Full(acc2, ms) THEN Out(acc2, FALSE)
             ELSE Hc3Loop(Tail(items), acc2, ms)

\* download_hc3: the possible returns (the shuffle before the truncation)
download_hc3(src, ms) ==
    LET r == IF src.load_ok THEN Hc3Loop(src.items, <<>>, ms)
             ELSE Out(<<>>, TRUE)
    IN  IF ms > 0 /\ Len(r.data) > ms
        THEN {Out(Prefix(p, ms), r.raised) : p \in Shuffles(r.data)}
        ELSE {r}

\* str.lower() of the label strings
Lower(v) ==
    CASE v = "AI" -> "ai"
      [] v = "Generated" -> "generated"
      [] v = "Human" -> "human"
      [] OTHER -> v

AiLabels == {"ai", "generated", "gpt", "1", "true"}

\* int() of an integer label
IntOf(v) == CASE v = "0" -> 0 [] v = "1" -> 1 [] v = "2" -> 2 [] OTHER -> -1

\* the label conversions of download_ai_detection_pile before int(label);
\* a label is given with its Python type
PileLabel(l) ==
    IF l.t = "str" THEN (IF Lower(l.v) \in AiLabels THEN 1 ELSE 0)
    ELSE IF l.t = "bool" THEN (IF l.v = "True" THEN 1 ELSE 0)
    ELSE IntOf(l.v)

RECURSIVE PileLoop(_, _, _)
PileLoop(items, acc, ms) ==
    IF items = <<>> THEN Out(acc, FALSE)
    ELSE IF Head(items).raise THEN Out(acc, TRUE)
    ELSE LET item == Head(items)
             kept == Len(Strip(item.text)) > MinTextLen
         IN  \* int(None) raises TypeError
             IF kept /\ item.label.t = "none" THEN Out(acc, TRUE)
             ELSE LET acc2 == AppendIf(acc, item.text, PileLabel(item.label),
                                       "pile_" \o item.source, "essay")
                  IN  IF Full(acc2, ms) THEN Out(acc2, FALSE)
                      ELSE PileLoop(Tail(items), acc2, ms)

\* download_ai_detection_pile; next(iter(ds)) raises StopIteration on an
\* empty dataset and what the first item raises
download_ai_detection_pile(src, ms) ==
    IF ~src.load_ok \/ src.items = <<>> THEN Out(<<>>, TRUE)
    ELSE PileLoop(src.items, <<>>, ms)

RECURSIVE DetectorLoop(_, _, _)
DetectorLoop(items, acc, ms) ==
    IF items = <<>> THEN Out(acc, FALSE)
    ELSE IF Head(items).raise THEN Out(acc, TRUE)
    ELSE LET acc2 == AppendIf(acc, Head(items).text, Head(items).label,
                              "chatgpt_detector", "mixed")
         IN  IF Full(acc2, ms) THEN Out(acc2, FALSE)
             ELSE DetectorLoop(Tail(items), acc2, ms)

\* the loops over ChatGPT-Research-Dataset and GPT-wiki-intro
RECURSIVE PairLoop(_, _, _, _, _)
PairLoop(items, acc, ms, source, category) ==
    IF items = <<>> THEN Out(acc, FALSE)
    ELSE IF Head(items).raise THEN Out(acc, TRUE)
    ELSE LET acc2 == AppendIf(AppendIf(acc, Head(items).human, 0, source, category),
                              Head(items).ai, 1, source, category)
         IN  IF Full(acc2, ms) THEN Out(acc2, FALSE)
             ELSE PairLoop(Tail(items), acc2, ms, source, category)

\* one try block of download_chatgpt_detection
TryDataset(src, loop) == IF src.load_ok THEN loop ELSE Out(<<>>, TRUE)

\* if len(all_data) < (max_samples or 10000)
Gate(acc, ms) == Len(acc) < (IF ms > 0 THEN ms ELSE DefaultSampleGate)

\* download_chatgpt_detection: the records and the datasets that warned
download_chatgpt_detection(up, ms) ==
    LET r1 == TryDataset(up.detector, DetectorLoop(up.detector.items, <<>>, ms))
        r2 == IF Gate(r1.data, ms)
              THEN IF up.research.load_ok
                   THEN PairLoop(up.research.items, r1.data, ms,
                                 "chatgpt_research", "mixed")
                   ELSE Out(r1.data, TRUE)
              ELSE Out(r1.data, FALSE)
        r3 == IF Gate(r2.data, ms)
              THEN IF up.wiki.load_ok
                   THEN PairLoop(up.wiki.items, r2.data, ms, "gpt_wiki", "wiki")
                   ELSE Out(r2.data, TRUE)
              ELSE Out(r2.data, FALSE)
    IN  [data |-> r3.data,
         warned |-> (IF r1.raised THEN {"chatgpt_detector"} ELSE {})
                    \cup (IF r2.raised THEN {"chatgpt_research"} ELSE {})
                    \cup (IF r3.raised THEN {"gpt_wiki"} ELSE {})]

(***************************************************************************)
(* The upstream datasets an assembly run meets                             *)
(***************************************************************************)
Hc3Item(h, a) == [raise |-> FALSE, human_answers |-> h, chatgpt_answers |-> a]
Hc3Raise == [raise |-> TRUE, human_answers |-> <<>>, chatgpt_answers |-> <<>>]

Label(t, v) == [t |-> t, v |-> v]
PileItem(text, label, source) ==
    [raise |-> FALSE, text |-> text, label |-> label, source |-> source]

DetectorItem(text, label) == [raise |-> FALSE, text |-> text, label |-> label]

PairItem(h, a) == [raise |-> FALSE, human |-> h, ai |-> a]
PairRaise == [raise |-> TRUE, human |-> <<>>, ai |-> <<>>]

\* a text of two sentences that is cut into two segments
LongText == Word(150) \o <<".", " ">> \o Word(151) \o <<".">>

Hc3Options ==
    { Src(FALSE, <<>>),
      Src(TRUE, <<Hc3Raise>>),
      Src(TRUE, <<Hc3Item(<<Word(21)>>, <<Word(22)>>)>>),
      Src(TRUE, <<Hc3Item(<<Word(21)>>, <<Word(22)>>), Hc3Raise>>),
      Src(TRUE, <<Hc3Item(<<Word(21), <<" ">> \o Word(20)>>,
                          <<Word(22), Word(23) \o <<"\n">> >>)>>) }

PileOptions ==
    { Src(FALSE, <<>>),
      Src(TRUE, <<>>),
      Src(TRUE, <<PileItem(Word(24), Label("str", "AI"), "gpt2"),
                  PileItem(Word(25), Label("bool", "False"), "unknown")>>),
      Src(TRUE, <<PileItem(Word(24), Label("str", "Human"), "unknown"),
                  PileItem(Word(25), Label("none", ""), "unknown")>>),
      Src(TRUE, <<PileItem(Word(24), Label("int", "2"), "gpt2")>>),
      Src(TRUE, <<PileItem(LongText, Label("bool", "True"), "gpt3")>>) }

DetectorOptions ==
    { Src(FALSE, <<>>), Src(TRUE, <<DetectorItem(Word(26), 1)>>) }

ResearchOptions ==
    { Src(FALSE, <<>>),
      Src(TRUE, <<PairItem(Word(27), Word(28))>>),
      Src(TRUE, <<PairItem(Word(27), Word(28)), PairRaise>>) }

WikiOptions ==
    { Src(FALSE, <<>>), Src(TRUE, <<PairItem(Word(29), <<>>)>>) }

RECURSIVE SumSeq(_)
SumSeq(ns) == IF ns = <<>> THEN 0 ELSE Head(ns) + SumSeq(Tail(ns))

\* the number of text fields the datasets of a run hold
NumTexts(up) ==
    SumSeq([i \in 1..Len(up.hc3.items) |->
                Len(up.hc3.items[i].human_answers)
                + Len(up.hc3.items[i].chatgpt_answers)])
    + Len(up.pile.items) + Len(up.detector.items)
    + 2 * Len(up.research.items) + 2 * Len(up.wiki.items)

Upstreams ==
    { up \in [hc3 : Hc3Options, pile : PileOptions, detector : DetectorOptions,
              research : ResearchOptions, wiki : WikiOptions] :
        NumTexts(up) <= MaxRawTexts }

(***************************************************************************)
(* Specification of the assembly run: main() of download_datasets.py, one  *)
(* step per call it makes                                                  *)
(***************************************************************************)
AsmInit ==
    /\ max_samples \in 0..MaxSamplesArg
    /\ upstream \in Upstreams
    /\ all_data = <<>> /\ returned = <<>> /\ warnings = {}
    /\ saved = <<>> /\ stats = [written |-> FALSE] /\ asm_error = ""
    /\ short_data = <<>> /\ balanced_data = <<>> /\ train_data = <<>>
    /\ val_data = <<>> /\ test_data = <<>> /\ bal_pc = "hc3"
    /\ SegIdle /\ ExpIdle /\ SrvIdle /\ CnvIdle

Returned(name, d) == [connector |-> name, data |-> d]

\* a connector has returned: all_data.extend(...)
Extend(name, d, warned, next) ==
    /\ all_data' = all_data \o d
    /\ returned' = Append(returned, Returned(name, d))
    /\ warnings' = warnings \cup warned
    /\ bal_pc' = next
    /\ UNCHANGED <<max_samples, upstream, saved, stats, asm_error>>
    /\ UNCHANGED <<short_data, balanced_data, train_data, val_data, test_data>>
    /\ UNCHANGED notMain

\* an exception leaves main
AbortRun(exc) ==
    /\ bal_pc' = "aborted"
    /\ asm_error' = exc
    /\ UNCHANGED <<max_samples, upstream, all_data, returned, warnings, saved, stats>>
    /\ UNCHANGED <<short_data, balanced_data, train_data, val_data, test_data>>
    /\ UNCHANGED notMain

\* main 357-358
DownloadHc3 ==
    /\ bal_pc = "hc3"
    /\ \E r \in download_hc3(upstream.hc3, max_samples) :
          Extend("hc3", r.data, IF r.raised THEN {"hc3"} ELSE {}, "pile")

\* main 361-362 with a connector that has no try block
DownloadPile_NoTry ==
    /\ bal_pc = "pile"
    /\ LET r == download_ai_detection_pile(upstream.pile, max_samples)
       IN  IF r.raised THEN AbortRun("SourceError")
           ELSE Extend("pile", r.data, {}, "extra")

\* main 361-362
DownloadPile ==
    /\ bal_pc = "pile"
    /\ LET r == download_ai_detection_pile(upstream.pile, max_samples)
       IN  Extend("pile", r.data, IF r.raised THEN {"pile"} ELSE {}, "extra")

\* main 365-366
DownloadExtra ==
    /\ bal_pc = "extra"
    /\ LET r == download_chatgpt_detection(upstream, max_samples)
       IN  Extend("extra", r.data, r.warned, "segment")

\* main 371
Segment ==
    /\ bal_pc = "segment"
    /\ short_data' = create_short_text_samples(all_data, TweetLength)
    /\ bal_pc' = "balance"
    /\ UNCHANGED <<balanced_data, train_data, val_data, test_data>>
    /\ UNCHANGED <<asmVars, notMain>>

SetNames == <<"train", "val", "test", "full">>

SetData(name) ==
    CASE name = "train" -> train_data
      [] name = "val" -> val_data
      [] name = "test" -> test_data
      [] name = "full" -> balanced_data

\* what a call of save_dataset left on disk for a set: each of the two
\* files is absent, partly written or written, and the call has returned
\* its paths or raised
SavedSet(name, d, json, csv, reported) ==
    [name |-> name, data |-> d, json |-> json, csv |-> csv, reported |-> reported]

\* save_dataset (317-333): open and json.dump, then DataFrame.to_csv; each
\* write can raise OSError, nothing is caught and nothing is removed
SaveOutcomes(name, d) ==
    { SavedSet(name, d, "absent", "absent", FALSE),
      SavedSet(name, d, "partial", "absent", FALSE),
      SavedSet(name, d, "written", "absent", FALSE),
      SavedSet(name, d, "written", "partial", FALSE),
      SavedSet(name, d, "written", "written", TRUE) }

\* main 395-398: the next call of save_dataset
SaveDataset ==
    /\ bal_pc = "save"
    /\ LET name == SetNames[Len(saved) + 1]
       IN  \E o \in SaveOutcomes(name, SetData(name)) :
              /\ saved' = Append(saved, o)
              /\ bal_pc' = IF ~o.reported THEN "aborted"
                           ELSE IF Len(saved') = Len(SetNames) THEN "stats"
                           ELSE "save"
              /\ asm_error' = IF o.reported THEN asm_error ELSE "OSError"
    /\ UNCHANGED <<max_samples, upstream, all_data, returned, warnings, stats>>
    /\ UNCHANGED <<short_data, balanced_data, train_data, val_data, test_data>>
    /\ UNCHANGED notMain

Sources(d) == {d[i].source : i \in 1..Len(d)}

\* main 401-414: the stats dict is built, which divides by
\* len(balanced_data), and written to stats.json
WriteStats ==
    /\ bal_pc = "stats"
    /\ IF Len(balanced_data) = 0
       THEN AbortRun("ZeroDivisionError")
       ELSE /\ stats' = [written |-> TRUE,
                         total_samples |-> Len(balanced_data),
                         train_samples |-> Len(train_data),
                         val_samples |-> Len(val_data),
                         test_samples |-> Len(test_data),
                         human_samples |-> Count(balanced_data, 0),
                         ai_samples |-> Count(balanced_data, 1),
                         sources |-> Sources(balanced_data),
                         sum_text_length |->
                             SumSeq([i \in 1..Len(balanced_data) |->
                                        Len(balanced_data[i].text)])]
            /\ bal_pc' = "done"
            /\ UNCHANGED <<max_samples, upstream, all_data, returned, warnings,
                           saved, asm_error>>
            /\ UNCHANGED <<short_data, balanced_data, train_data, val_data,
                           test_data>>
            /\ UNCHANGED notMain

AsmNext ==
    \/ DownloadHc3 \/ DownloadPile \/ DownloadExtra \/ Segment
    \/ BalanceDataset \/ SplitData \/ SaveDataset \/ WriteStats

SpecAssemble == AsmInit /\ [][AsmNext]_vars

Connecting == bal_pc \in {"hc3", "pile", "extra"}

\* C18: no connector lets a fetch or schema error reach main: when a
\* source raises while it is loaded or iterated, the connector returns,
\* main goes on to the next connector, and what the three connectors
\* returned is what the segmenter is given.
C18_ConnectorsContainErrors ==
    /\ asm_error # "SourceError"
    /\ Len(returned) = (CASE bal_pc = "hc3" -> 0 [] bal_pc = "pile" -> 1
                          [] bal_pc = "extra" -> 2 [] OTHER -> 3)
    /\ ~Connecting =>
          all_data = returned[1].data \o returned[2].data \o returned[3].data
    /\ (~Connecting /\ bal_pc # "segment") =>
          short_data = create_short_text_samples(all_data, TweetLength)

\* the pile connector failed and the records of HC3, which did not fail,
\* have been segmented
C18_Witness ==
    /\ bal_pc = "balance"
    /\ "pile" \in warnings /\ "hc3" \notin warnings
    /\ returned[2].data = <<>>
    /\ returned[1].data # <<>>
    /\ \A i \in 1..Len(returned[1].data) :
          \E j \in 1..Len(short_data) :
              short_data[j].text = returned[1].data[i].text

\* the dataset a record was taken from
DatasetOf(rec) ==
    IF rec.source \in {"pile_gpt2", "pile_gpt3", "pile_unknown"}
    THEN "pile" ELSE rec.source

\* C19: a source whose loading or iteration raised, at any point, has no
\* record in the assembled data.
C19_FailedSourceYieldsNothing ==
    \A i \in 1..Len(all_data) : DatasetOf(all_data[i]) \notin warnings

\* C20: whatever sources fail, the assembly run does not abort (the file
\* system left aside), and when it has finished the four sets and the
\* statistics file are written.
C20_RunNeverAborts ==
    asm_error # "OSError" =>
        /\ bal_pc # "aborted"
        /\ bal_pc = "done" => (Len(saved) = Len(SetNames) /\ stats.written)

\* C21: every record a connector returned has label 0 (Human) or 1 (AI),
\* whatever the upstream label was.
C21_TwoValuedLabels ==
    \A k \in 1..Len(returned) :
        \A i \in 1..Len(returned[k].data) :
            returned[k].data[i].label \in {0, 1}

\* C22: when a positive maximum sample count is given, no connector
\* returns more records than that.
C22_ConnectorCap ==
    max_samples > 0 =>
        \A k \in 1..Len(returned) : Len(returned[k].data) <= max_samples

\* C23: save_dataset is atomic per named set: after a call, returned or
\* failed, both files of the set are written or neither is on disk, and
\* the call reports the set saved only when both are written.
C23_SaveAtomic ==
    \A k \in 1..Len(saved) :
        /\ \/ saved[k].json = "written" /\ saved[k].csv = "written"
           \/ saved[k].json = "absent" /\ saved[k].csv = "absent"
        /\ saved[k].reported =>
              (saved[k].json = "written" /\ saved[k].csv = "written")

Terminators == {".", "!", "?"}

NoTerminator(text) == \A i \in 1..Len(text) : text[i] \notin Terminators

SegDone == seg_pc = "done" /\ data # <<>>

Emitted(chunk) == IF Len(chunk) >= 30 THEN <<chunk>> ELSE <<>>

\* the texts of the segments cut from a sequence of sentences, from the
\* running chunk on: a sentence that would overflow ends the running
\* chunk, which is emitted or discarded, and the next chunk is that
\* sentence, or empty when the sentence alone is longer than maxlen
RECURSIVE ChunksFrom(_, _, _)
ChunksFrom(sentences, chunk, maxlen) ==
    IF sentences = <<>> THEN Emitted(chunk)
    ELSE LET sentence == Head(sentences)
         IN  IF Len(chunk) + Len(sentence) + 1 > maxlen
             THEN Emitted(chunk)
                  \o ChunksFrom(Tail(sentences),
                                IF Len(sentence) > maxlen THEN <<>> ELSE sentence,
                                maxlen)
             ELSE ChunksFrom(Tail(sentences),
                             IF chunk = <<>> THEN sentence
                             ELSE chunk \o <<" ">> \o sentence, maxlen)

RECURSIVE ExpectedTexts(_, _)
ExpectedTexts(d, maxlen) ==
    IF d = <<>> THEN <<>>
    ELSE (IF Len(Head(d).text) <= maxlen THEN <<Head(d).text>>
          ELSE ChunksFrom(Sentences(Head(d).text), <<>>, maxlen))
         \o ExpectedTexts(Tail(d), maxlen)

\* C25: when the next sentence would overflow max_length, the running
\* chunk is emitted only if it has at least 30 characters and is otherwise
\* discarded, and the next chunk starts from the overflowing sentence
\* alone, or from empty when that sentence is longer than max_length: the
\* segments of a run are exactly the chunks cut that way.
C25_OverflowRule ==
    seg_pc = "done" =>
        [k \in 1..Len(short_samples) |-> short_samples[k].text]
            = ExpectedTexts(data, max_length)

\* a text of three sentences: the first is longer than max_length and is
\* dropped, the second overflows and starts a chunk, the third overflows,
\* the chunk is emitted and the third starts the next one
C25_Witness ==
    /\ seg_pc = "done" /\ max_length = 31
    /\ Len(data) = 1 /\ data[1].source = "chatgpt_research"
    /\ Len(Sentences(data[1].text)) = 3
    /\ Len(short_samples) = 2
    /\ \A k \in 1..2 : IsChunked(short_samples[k]) /\ Len(short_samples[k].text) = 31

\* C26: whichever route wrote the intermediate SavedModel of an export
\* run, the fallback inside export_to_saved_model included, it was derived
\* from the weights at the model path given to the run.
C26_SavedModelFromModelPath ==
    saved_model.route # "none" => saved_model.src = model_path

\* C29: the max_length written to tokenizer_config.json equals the
\* sequence length given to the run, with which the input signature of
\* the converted model was built.
C29_TokenizerMaxLength ==
    "tfjs/tokenizer_config.json" \in fs =>
        /\ tokenizer_config.max_length = arg_max_length
        /\ tokenizer_config.max_length = saved_model.len

(***************************************************************************)
(* convert_to_tensorflowjs of train_local.py, one step per call it makes;  *)
(* the whole body is in one try block whose except branch returns False    *)
(***************************************************************************)
\* what tensorflowjs_converter writes
GraphModelFiles == {"model.json", "group1-shard1of1.bin"}
BundleFiles == GraphModelFiles \cup {"vocab.json", "tokenizer_config.json"}

\* exit statuses of tensorflowjs_converter
ReturnCodes == {0, 1, 2}

CnvInit ==
    /\ tfjs_dir \in SUBSET BundleFiles
    /\ written = {}
    /\ returncode = -1
    /\ conv_result = "none"
    /\ conv_pc = "load"
    /\ SegIdle /\ BalIdle /\ ExpIdle /\ SrvIdle /\ AsmIdle

\* except Exception: return False (326-329)
ReturnFalse ==
    /\ conv_result' = "False"
    /\ conv_pc' = "returned"
    /\ UNCHANGED <<tfjs_dir, written, returncode>>

\* 262-267: TFDistilBertForSequenceClassification.from_pretrained
LoadIntoTensorFlow ==
    /\ conv_pc = "load"
    /\ \/ conv_pc' = "save_tf" /\ UNCHANGED <<tfjs_dir, written, returncode, conv_result>>
       \/ ReturnFalse
    /\ UNCHANGED notCnv

\* 270-276: tf_model.save_pretrained and os.makedirs
SaveTfModel ==
    /\ conv_pc = "save_tf"
    /\ \/ conv_pc' = "convert" /\ UNCHANGED <<tfjs_dir, written, returncode, conv_result>>
       \/ ReturnFalse
    /\ UNCHANGED notCnv

\* 281-294: subprocess.run of tensorflowjs_converter, which raises when the
\* converter is not installed; a non-zero exit status, after which the
\* converter may have written some of its files, is printed as a warning
RunConverter ==
    /\ conv_pc = "convert"
    /\ \/ \E rc \in ReturnCodes, out \in SUBSET GraphModelFiles :
             /\ rc = 0 => out = GraphModelFiles
             /\ returncode' = rc
             /\ tfjs_dir' = tfjs_dir \cup out
             /\ written' = written \cup out
             /\ conv_pc' = "vocab"
             /\ UNCHANGED conv_result
       \/ ReturnFalse
    /\ UNCHANGED notCnv

\* 297-301: vocab.json
ExportVocabulary ==
    /\ conv_pc = "vocab"
    /\ \/ /\ tfjs_dir' = tfjs_dir \cup {"vocab.json"}
          /\ written' = written \cup {"vocab.json"}
          /\ conv_pc' = "config"
          /\ UNCHANGED <<returncode, conv_result>>
       \/ ReturnFalse
    /\ UNCHANGED notCnv

\* 304-315: tokenizer_config.json
ExportTokenizerConfig ==
    /\ conv_pc = "config"
    /\ \/ /\ tfjs_dir' = tfjs_dir \cup {"tokenizer_config.json"}
          /\ written' = written \cup {"tokenizer_config.json"}
          /\ conv_pc' = "size"
          /\ UNCHANGED <<returncode, conv_result>>
       \/ ReturnFalse
    /\ UNCHANGED notCnv

\* 318-324: the size of the bundle is printed, return True
ReturnTrue ==
    /\ conv_pc = "size"
    /\ conv_result' = "True"
    /\ conv_pc' = "returned"
    /\ UNCHANGED <<tfjs_dir, written, returncode>>
    /\ UNCHANGED notCnv

CnvNext ==
    \/ LoadIntoTensorFlow \/ SaveTfModel \/ RunConverter
    \/ ExportVocabulary \/ ExportTokenizerConfig \/ ReturnTrue

SpecConvert == CnvInit /\ [][CnvNext]_vars

\* C27: after a non-zero exit status of the converter,
\* convert_to_tensorflowjs writes neither the vocabulary nor the tokenizer
\* config into the bundle directory and does not return True.
C27_ConverterFailureFatal ==
    returncode \notin {-1, 0} =>
        /\ "vocab.json" \notin written
        /\ "tokenizer_config.json" \notin written
        /\ conv_result # "True"

\* C28: in every completed assembly run the statistics written agree:
\* total_samples = train_samples + val_samples + test_samples
\* = human_samples + ai_samples, and human_samples = ai_samples.
C28_StatsConsistent ==
    bal_pc = "done" =>
        /\ stats.written
        /\ stats.total_samples
              = stats.train_samples + stats.val_samples + stats.test_samples
        /\ stats.total_samples = stats.human_samples + stats.ai_samples
        /\ stats.human_samples = stats.ai_samples

\* a completed run whose segments held more records of one class than of
\* the other and a record with a label that is neither 0 nor 1
C28_Witness ==
    /\ bal_pc = "done" /\ stats.written
    /\ stats.total_samples >= 2
    /\ Count(short_data, 0) # Count(short_data, 1)
    /\ \E i \in 1..Len(short_data) : short_data[i].label \notin {0, 1}

\* the sentences joined by single spaces
RECURSIVE JoinSpace(_)
JoinSpace(ss) ==
    IF ss = <<>> THEN <<>>
    ELSE IF Len(ss) = 1 THEN Head(ss)
    ELSE Head(ss) \o <<" ">> \o JoinSpace(Tail(ss))

\* seg is cut from item: the single-space join of consecutive sentences
JoinOfSentences(seg, item) ==
    /\ seg.label = item.label /\ seg.source = item.source
    /\ seg.category = item.category
    /\ LET ss == Sentences(item.text)
       IN  \E i \in 1..Len(ss) : \E j \in i..Len(ss) :
               seg.text = JoinSpace(SubSeq(ss, i, j))

\* C30: every segment tagged 'chunked' holds no '.', '!' or '?', has no
\* leading or trailing whitespace, and is the single-space join of
\* consecutive trimmed sentences of a text it was cut from, in their
\* order.
C30_ChunkedShape ==
    seg_pc = "done" =>
        \A k \in 1..Len(short_samples) :
            IsChunked(short_samples[k]) =>
                /\ NoTerminator(short_samples[k].text)
                /\ Strip(short_samples[k].text) = short_samples[k].text
                /\ \E n \in 1..Len(data) :
                      /\ Len(data[n].text) > max_length
                      /\ JoinOfSentences(short_samples[k], data[n])

\* a chunk made of two sentences of a text with terminators
C30_Witness ==
    /\ seg_pc = "done" /\ Len(data) = 1
    /\ ~NoTerminator(data[1].text)
    /\ Len(short_samples) = 1 /\ IsChunked(short_samples[1])
    /\ \E i \in 1..Len(short_samples[1].text) : short_samples[1].text[i] = " "
    /\ Len(Sentences(data[1].text)) = 2
    /\ Len(Sentences(data[1].text)[1]) # Len(Sentences(data[1].text)[2])

====
